---------------------------- MODULE Spec2Model ----------------------------
(***************************************************************************)
(* Model of internal/metrics/cmd.go of ubuntu-report: the process runner   *)
(* runCmd (an io.Pipe fed by a goroutine that runs the command) and the    *)
(* field mappers getGPU, getCPU, getScreens, getPartitions, getArch and    *)
(* getHwCap that consume its stream.                                       *)
(*                                                                         *)
(* Two families of specifications share the module:                        *)
(*   SpecRun / FairRun : the concurrent behaviour of runCmd invocations    *)
(*   Spec              : one mapper call on one configured command         *)
(***************************************************************************)
EXTENDS Integers, Sequences, FiniteSets, TLC

(***************************************************************************)
(* Bounds of the model                                                     *)
(***************************************************************************)
\* most lines a modelled command prints
MaxLines == 3
\* most entries of a modelled lscpu tree
MaxNodes == 3
\* most bytes a modelled command writes to its stdout
MaxOut == 2
\* capacity, in bytes, of the kernel pipe between the process and os/exec
OsPipeCap == 1

\* the concurrent runCmd invocations that are modelled
Invocations == {1, 2}

VARIABLES
  \* ---- runCmd and its stream, one of each per invocation -------------
  script,    \* the command: [n |-> bytes it writes, fate |-> how it ends]
  inv,       \* "new" | "returned": position of the caller of runCmd
  gor,       \* number of background tasks runCmd has started
  gpc,       \* position of the goroutine of runCmd
  runErr,    \* the error cmd.Run returned to the goroutine
  proc,      \* "none" | "running" | "exited": the OS process
  written,   \* number of bytes the process has written to its stdout
  ospipe,    \* bytes in the kernel pipe that os/exec reads from
  copier,    \* position of the os/exec goroutine copying into pw
  pend,      \* bytes of the pw.Write in progress (the unbuffered handoff)
  perr,      \* Open, or what the pipe was closed with
  closes,    \* the close calls made on pw, in order
  got,       \* bytes the consumer has read from pr
  outcome,   \* the terminal results (EOF or error) the consumer received
  cons,      \* "reading" | "abandoned" | "finished": the consumer
  \* ---- one mapper call on one configured command ---------------------
  mapper,    \* the mapper under study, "none" when runCmd itself is
  cmd,       \* the command the Metrics value holds for that mapper
  pc,        \* "ready" | "returned": position of the caller of the mapper
  result,    \* what the mapper returned
  spawned    \* number of processes the mapper has spawned

rvars == <<script, inv, gor, gpc, runErr, proc, written, ospipe, copier,
           pend, perr, closes, got, outcome, cons>>

mvars == <<mapper, cmd, pc, result, spawned>>

vars == <<rvars, mvars>>

(***************************************************************************)
(* runCmd                                                                  *)
(***************************************************************************)
Fates == {"ok", "exitErr", "startErr"}

\* every command the model runs: a start failure writes nothing
Scripts ==
  {[n |-> k, fate |-> f] : k \in 0..MaxOut, f \in {"ok", "exitErr"}}
    \cup {[n |-> 0, fate |-> "startErr"]}

\* cmd.Args of the command of an invocation
Args(i) == IF i = 1 THEN <<"lspci", "-n">> ELSE <<"df", "-k", "/">>

\* the error of os/exec for a fate
OsError(f) == IF f = "startErr" THEN "exec: not found" ELSE "exit status 1"

\* the states of the read side of an io.Pipe that carry no error
Open == [kind |-> "open", cause |-> "", args |-> <<>>]

EOF == [kind |-> "EOF", cause |-> "", args |-> <<>>]

\* errors.Wrapf(err, "'%s' return an error", cmd.Args)
WrapfProgramOnly(err, args) ==
  [kind |-> "error", cause |-> err, args |-> <<Head(args)>>]

Wrapf(err, args) == [kind |-> "error", cause |-> err, args |-> args]

\* runCmd: io.Pipe(), cmd.Stdout = pw, go func(){...}(), return pr
RunCmd(i) ==
  /\ inv[i] = "new"
  /\ inv' = [inv EXCEPT ![i] = "returned"]
  /\ gor' = [gor EXCEPT ![i] = @ + 1]
  /\ gpc' = [gpc EXCEPT ![i] = "start"]
  /\ UNCHANGED <<script, runErr, proc, written, ospipe, copier, pend, perr,
                 closes, got, outcome, cons>>
  /\ UNCHANGED mvars

\* cmd.Run, first half: cmd.Start spawns the process and the copying
\* goroutine of os/exec, or fails
CmdStart(i) ==
  /\ gpc[i] = "start"
  /\ IF script[i].fate = "startErr"
       THEN /\ runErr' = [runErr EXCEPT ![i] = OsError("startErr")]
            /\ gpc' = [gpc EXCEPT ![i] = "close"]
            /\ UNCHANGED <<proc, copier>>
       ELSE /\ proc' = [proc EXCEPT ![i] = "running"]
            /\ copier' = [copier EXCEPT ![i] = "reading"]
            /\ gpc' = [gpc EXCEPT ![i] = "wait"]
            /\ UNCHANGED runErr
  /\ UNCHANGED <<script, inv, gor, written, ospipe, pend, perr, closes, got,
                 outcome, cons>>
  /\ UNCHANGED mvars

\* the process writes its next byte when the kernel pipe has room
ProcWrite(i) ==
  /\ proc[i] = "running"
  /\ written[i] < script[i].n
  /\ Len(ospipe[i]) < OsPipeCap
  /\ written' = [written EXCEPT ![i] = @ + 1]
  /\ ospipe' = [ospipe EXCEPT ![i] = Append(@, written[i] + 1)]
  /\ UNCHANGED <<script, inv, gor, gpc, runErr, proc, copier, pend, perr,
                 closes, got, outcome, cons>>
  /\ UNCHANGED mvars

\* the process exits once it has written all its output
ProcExit(i) ==
  /\ proc[i] = "running"
  /\ written[i] = script[i].n
  /\ proc' = [proc EXCEPT ![i] = "exited"]
  /\ UNCHANGED <<script, inv, gor, gpc, runErr, written, ospipe, copier,
                 pend, perr, closes, got, outcome, cons>>
  /\ UNCHANGED mvars

\* os/exec: io.Copy(pw, kernel pipe) reads a byte and enters pw.Write,
\* which blocks until the reader of pr has taken it
CopyRead(i) ==
  /\ copier[i] = "reading"
  /\ ospipe[i] # <<>>
  /\ pend' = [pend EXCEPT ![i] = <<Head(ospipe[i])>>]
  /\ ospipe' = [ospipe EXCEPT ![i] = Tail(@)]
  /\ copier' = [copier EXCEPT ![i] = "writing"]
  /\ UNCHANGED <<script, inv, gor, gpc, runErr, proc, written, perr, closes,
                 got, outcome, cons>>
  /\ UNCHANGED mvars

\* pw.Write returns: every byte of it was read
CopyWritten(i) ==
  /\ copier[i] = "writing"
  /\ pend[i] = <<>>
  /\ copier' = [copier EXCEPT ![i] = "reading"]
  /\ UNCHANGED <<script, inv, gor, gpc, runErr, proc, written, ospipe, pend,
                 perr, closes, got, outcome, cons>>
  /\ UNCHANGED mvars

\* io.Copy reaches end of file: the process is gone and the pipe is empty
CopyEOF(i) ==
  /\ copier[i] = "reading"
  /\ ospipe[i] = <<>>
  /\ proc[i] = "exited"
  /\ copier' = [copier EXCEPT ![i] = "done"]
  /\ UNCHANGED <<script, inv, gor, gpc, runErr, proc, written, ospipe, pend,
                 perr, closes, got, outcome, cons>>
  /\ UNCHANGED mvars

\* cmd.Run, second half: cmd.Wait returns when the process has exited and
\* the copying goroutine has finished
CmdWait(i) ==
  /\ gpc[i] = "wait"
  /\ proc[i] = "exited"
  /\ copier[i] = "done"
  /\ runErr' = [runErr EXCEPT ![i] =
                  IF script[i].fate = "exitErr" THEN OsError("exitErr")
                                                ELSE "nil"]
  /\ gpc' = [gpc EXCEPT ![i] = "close"]
  /\ UNCHANGED <<script, inv, gor, proc, written, ospipe, copier, pend, perr,
                 closes, got, outcome, cons>>
  /\ UNCHANGED mvars

\* PipeWriter.CloseWithError: the first close decides what readers see
CloseWithError(p, e) == IF p = Open THEN e ELSE p

\* a goroutine without the return after CloseWithError
GoCloseNoReturn(i) ==
  /\ gpc[i] = "close"
  /\ IF runErr[i] # "nil"
       THEN /\ perr' = [perr EXCEPT ![i] =
                          CloseWithError(
                            CloseWithError(@, Wrapf(runErr[i], Args(i))), EOF)]
            /\ closes' = [closes EXCEPT ![i] =
                            @ \o <<"CloseWithError", "Close">>]
       ELSE /\ perr' = [perr EXCEPT ![i] = CloseWithError(@, EOF)]
            /\ closes' = [closes EXCEPT ![i] = Append(@, "Close")]
  /\ gpc' = [gpc EXCEPT ![i] = "done"]
  /\ UNCHANGED <<script, inv, gor, runErr, proc, written, ospipe, copier,
                 pend, got, outcome, cons>>
  /\ UNCHANGED mvars

\* a goroutine that reports only the program name
GoCloseProgramOnly(i) ==
  /\ gpc[i] = "close"
  /\ IF runErr[i] # "nil"
       THEN /\ perr' = [perr EXCEPT ![i] =
                          CloseWithError(@, WrapfProgramOnly(runErr[i], Args(i)))]
            /\ closes' = [closes EXCEPT ![i] = Append(@, "CloseWithError")]
       ELSE /\ perr' = [perr EXCEPT ![i] = CloseWithError(@, EOF)]
            /\ closes' = [closes EXCEPT ![i] = Append(@, "Close")]
  /\ gpc' = [gpc EXCEPT ![i] = "done"]
  /\ UNCHANGED <<script, inv, gor, runErr, proc, written, ospipe, copier,
                 pend, got, outcome, cons>>
  /\ UNCHANGED mvars

\* the goroutine after cmd.Run: pw.CloseWithError(wrapped) and return, or
\* pw.Close()
GoClose(i) ==
  /\ gpc[i] = "close"
  /\ IF runErr[i] # "nil"
       THEN /\ perr' = [perr EXCEPT ![i] =
                          CloseWithError(@, Wrapf(runErr[i], Args(i)))]
            /\ closes' = [closes EXCEPT ![i] = Append(@, "CloseWithError")]
       ELSE /\ perr' = [perr EXCEPT ![i] = CloseWithError(@, EOF)]
            /\ closes' = [closes EXCEPT ![i] = Append(@, "Close")]
  /\ gpc' = [gpc EXCEPT ![i] = "done"]
  /\ UNCHANGED <<script, inv, gor, runErr, proc, written, ospipe, copier,
                 pend, got, outcome, cons>>
  /\ UNCHANGED mvars

\* the consumer calls pr.Read: a closed pipe answers with its error, an
\* open one hands over the bytes of the pending write; otherwise it blocks
Read(i) ==
  /\ inv[i] = "returned"
  /\ cons[i] = "reading"
  /\ IF perr[i] # Open
       THEN /\ outcome' = [outcome EXCEPT ![i] = Append(@, perr[i])]
            /\ cons' = [cons EXCEPT ![i] = "finished"]
            /\ UNCHANGED <<got, pend>>
       ELSE /\ pend[i] # <<>>
            /\ got' = [got EXCEPT ![i] = @ \o pend[i]]
            /\ pend' = [pend EXCEPT ![i] = <<>>]
            /\ UNCHANGED <<outcome, cons>>
  /\ UNCHANGED <<script, inv, gor, gpc, runErr, proc, written, ospipe,
                 copier, perr, closes>>
  /\ UNCHANGED mvars

\* the consumer stops reading pr for good
Abandon(i) ==
  /\ inv[i] = "returned"
  /\ cons[i] = "reading"
  /\ cons' = [cons EXCEPT ![i] = "abandoned"]
  /\ UNCHANGED <<script, inv, gor, gpc, runErr, proc, written, ospipe,
                 copier, pend, perr, closes, got, outcome>>
  /\ UNCHANGED mvars

(***************************************************************************)
(* Strings.  A Go string or []byte is the sequence of its characters, so   *)
(* that strings.Fields, strings.Index, the regular expressions and the     *)
(* like are computed, not assumed.                                         *)
(***************************************************************************)
Digits == {"0", "1", "2", "3", "4", "5", "6", "7", "8", "9"}

Letters ==
  {"a", "b", "c", "d", "e", "f", "g", "h", "i", "j", "k", "l", "m", "n", "o",
   "p", "q", "r", "s", "t", "u", "v", "w", "x", "y", "z", "A", "B", "C", "D",
   "E", "F", "G", "H", "I", "J", "K", "L", "M", "N", "O", "P", "Q", "R", "S",
   "T", "U", "V", "W", "X", "Y", "Z"}

\* the regular expression class \s and unicode.IsSpace, on the characters
\* the model uses
Space == {" ", "\t", "\n"}

IsSpace(c) == c \in Space

\* [a-zA-Z0-9]
Alnum == Digits \cup Letters

Min(S) == CHOOSE x \in S : \A y \in S : x <= y

Max(S) == CHOOSE x \in S : \A y \in S : x >= y

\* s[i:] of Go, i counted from 0
From(s, i) == SubSeq(s, i + 1, Len(s))

\* s[:i] of Go
Upto(s, i) == SubSeq(s, 1, i)

\* strings.HasPrefix
HasPrefix(s, p) == Len(s) >= Len(p) /\ SubSeq(s, 1, Len(p)) = p

\* strings.HasSuffix
HasSuffix(s, p) ==
  Len(s) >= Len(p) /\ SubSeq(s, Len(s) - Len(p) + 1, Len(s)) = p

\* the offsets, from 0, at which w occurs in s
Occurrences(s, w) == {i \in 0..(Len(s) - Len(w)) : HasPrefix(From(s, i), w)}

\* strings.Index and bytes.Index: the first offset of w in s, or -1
Index(s, w) ==
  IF Occurrences(s, w) = {} THEN -1 ELSE Min(Occurrences(s, w))

\* strings.LastIndex
LastIndex(s, w) ==
  IF Occurrences(s, w) = {} THEN -1 ELSE Max(Occurrences(s, w))

Contains(s, w) == Index(s, w) >= 0

\* length of the longest prefix of s whose characters are all in C
RECURSIVE Span(_, _)
Span(s, C) == IF s # <<>> /\ Head(s) \in C THEN 1 + Span(Tail(s), C) ELSE 0

\* length of the longest prefix of s with no character of C
RECURSIVE SpanNot(_, _)
SpanNot(s, C) ==
  IF s # <<>> /\ Head(s) \notin C THEN 1 + SpanNot(Tail(s), C) ELSE 0

\* strings.Fields: the maximal runs of non-space characters
RECURSIVE Fields(_)
Fields(s) ==
  IF s = <<>> THEN <<>>
  ELSE IF IsSpace(Head(s)) THEN Fields(Tail(s))
  ELSE <<Upto(s, SpanNot(s, Space))>> \o Fields(From(s, SpanNot(s, Space)))

\* strings.Replace(s, " ", "", -1)
RemoveSpaces(s) == SelectSeq(s, LAMBDA c : c # " ")

RECURSIVE TrimLeft(_)
TrimLeft(s) == IF s # <<>> /\ IsSpace(Head(s)) THEN TrimLeft(Tail(s)) ELSE s

RECURSIVE TrimRight(_)
TrimRight(s) ==
  IF s # <<>> /\ IsSpace(s[Len(s)]) THEN TrimRight(Upto(s, Len(s) - 1))
  ELSE s

\* strings.TrimSpace
TrimSpace(s) == TrimRight(TrimLeft(s))

\* strings.SplitN(s, ":", 2)
SplitN2(s) ==
  IF Index(s, <<":">>) < 0 THEN <<s>>
  ELSE <<Upto(s, Index(s, <<":">>)), From(s, Index(s, <<":">>) + 1)>>

\* the lines a line scanner yields: the text between newlines, and a last
\* line without newline when it is not empty
RECURSIVE Lines(_)
Lines(b) ==
  IF b = <<>> THEN <<>>
  ELSE IF Index(b, <<"\n">>) < 0 THEN <<b>>
  ELSE <<Upto(b, Index(b, <<"\n">>))>> \o Lines(From(b, Index(b,
    <<"\n">>) + 1))

\* concatenation of a sequence of strings
RECURSIVE Concat(_)
Concat(ss) == IF ss = <<>> THEN <<>> ELSE Head(ss) \o Concat(Tail(ss))

\* the sequences over S of length at most n
BSeq(S, n) == UNION {[1..k -> S] : k \in 0..n}

(***************************************************************************)
(* The literals of cmd.go                                                  *)
(***************************************************************************)
\* " 0300: " of the lspci pattern
PciDisplay == <<" ", "0", "3", "0", "0", ":", " ">>

\* " (rev " of the lspci pattern
PciRev == <<" ", "(", "r", "e", "v", " ">>

\* " connected " of the xrandr pattern
Connected == <<" ", "c", "o", "n", "n", "e", "c", "t", "e", "d", " ">>

\* "mm x " and "mm" of the xrandr pattern
MmX == <<"m", "m", " ", "x", " ">>

Mm == <<"m", "m">>

\* "/dev/" of the df pattern
Dev == <<"/", "d", "e", "v", "/">>

Loop == <<"l", "o", "o", "p">>

\* hwCapBytes and legacyBytes of getHwCap, and the text its pattern looks for
hwCapBytes == <<"S", "u", "b", "d", "i", "r", "e", "c", "t", "o", "r", "i",
  "e", "s", " ", "o", "f", " ", "g", "l", "i", "b", "c", "-", "h", "w", "c",
  "a", "p", "s">>

legacyBytes == <<"L", "e", "g", "a", "c", "y", " ", "H", "W", "C", "A", "P",
  " ", "s", "u", "b", "d", "i", "r", "e", "c", "t", "o", "r", "i", "e", "s">>

SupportedSearched == <<"s", "u", "p", "p", "o", "r", "t", "e", "d", ",", " ",
  "s", "e", "a", "r", "c", "h", "e", "d">>

Dash == <<"-">>

(***************************************************************************)
(* The regular expressions of the mappers.  A match is [ok, cap]: whether  *)
(* the line matches, and the text of the capture group that took part.     *)
(***************************************************************************)
NoMatch == [ok |-> FALSE, cap |-> <<>>]

Match(c) == [ok |-> TRUE, cap |-> c]

\* ( \(rev .*\))?$
GpuTail(t) ==
  \/ t = <<>>
  \/ HasPrefix(t, PciRev) /\ HasSuffix(From(t, Len(PciRev)), <<")">>)

\* " 0300: ([a-zA-Z0-9]+:[a-zA-Z0-9]+)( \(rev .*\))?$" at offset a
GpuAt(line, a) ==
  LET t == From(line, a)
      r == From(t, Len(PciDisplay))
      v == Span(r, Alnum)
      s == From(r, v)
      m == Span(From(s, 1), Alnum)
  IN  IF /\ HasPrefix(t, PciDisplay)
         /\ v > 0
         /\ HasPrefix(s, <<":">>)
         /\ m > 0
         /\ GpuTail(From(s, 1 + m))
        THEN Match(Upto(r, v + 1 + m))
        ELSE NoMatch

\* ^.* 0300: ([a-zA-Z0-9]+:[a-zA-Z0-9]+)( \(rev .*\))?$
GpuRegexp(line) ==
  LET as == {a \in 0..Len(line) : GpuAt(line, a).ok}
  IN  IF as = {} THEN NoMatch ELSE GpuAt(line, Max(as))

\* (\d+mm x \d+mm) at offset b
SizeAt(line, b) ==
  LET t == From(line, b)
      w == Span(t, Digits)
      u == From(t, w)
      h == Span(From(u, Len(MmX)), Digits)
  IN  IF /\ w > 0
         /\ HasPrefix(u, MmX)
         /\ h > 0
         /\ HasPrefix(From(u, Len(MmX) + h), Mm)
        THEN Match(Upto(t, w + Len(MmX) + h + Len(Mm)))
        ELSE NoMatch

\* ^(?: +(.*)\*|.* connected .* (\d+mm x \d+mm)): the first alternative
\* captures what lies between the leading blanks and the last star; the
\* second one the last size that a blank precedes, the blank lying after
\* " connected "
ScreenRegexp(line) ==
  LET star == LastIndex(line, <<"*">>)
      lead == Span(line, {" "})
      conn == Index(line, Connected)
      bs == {b \in 1..Len(line) :
               /\ conn >= 0
               /\ b - 1 >= conn + Len(Connected)
               /\ line[b] = " "
               /\ SizeAt(line, b).ok}
  IN  IF lead > 0 /\ star >= 0
        THEN Match(SubSeq(line, lead + 1, star))
        ELSE IF bs = {} THEN NoMatch ELSE SizeAt(line, Max(bs))

\* ^/dev/([^\s]+ +[^\s]*).*$
PartitionRegexp(line) ==
  LET r == From(line, Len(Dev))
      n == SpanNot(r, Space)
      k == Span(From(r, n), {" "})
      t == SpanNot(From(r, n + k), Space)
  IN  IF HasPrefix(line, Dev) /\ n > 0 /\ k > 0
        THEN Match(Upto(r, n + k + t))
        ELSE NoMatch

\* ^(?:(.*) +.*supported, searched.*)
HwCapRegexp(line) ==
  LET is == {i \in 1..Len(line) :
               line[i] = " " /\ Contains(From(line, i), SupportedSearched)}
  IN  IF is = {} THEN NoMatch ELSE Match(Upto(line, Max(is) - 1))

\* regexp.FindStringSubmatch with the pattern that the named mapper compiles
FindStringSubmatch(re, line) ==
  CASE re = "getGPU" -> GpuRegexp(line)
    [] re = "getScreens" -> ScreenRegexp(line)
    [] re = "getPartitions" -> PartitionRegexp(line)
    [] re = "getHwCap" -> HwCapRegexp(line)

(***************************************************************************)
(* The stream of a command as a consumer that reads it to its end sees it  *)
(* (the behaviour of runCmd that SpecRun establishes): the bytes the       *)
(* command wrote, then EOF or the wrapped error.                           *)
(* A command is [nil, args, out, fate]: out is what it writes to stdout    *)
(* before it ends as fate says.                                            *)
(***************************************************************************)
runCmd(c) ==
  [data |-> c.out,
   end |-> IF c.fate = "ok" THEN EOF ELSE Wrapf(OsError(c.fate), c.args)]

\* ioutil.ReadAll: the bytes read, and whether the stream ended without error
ReadAll(r) == [ok |-> r.end = EOF, val |-> r.data]

\* bytes.NewReader
NewReader(b) == [data |-> b, end |-> EOF]

\* cmd.CombinedOutput: the output, and whether the command ran and exited
\* with status 0
CombinedOutput(c) == [ok |-> c.fate = "ok", val |-> c.out]

\* the captures of the lines that match, in stream order
RECURSIVE Captures(_, _)
Captures(lines, re) ==
  IF lines = <<>> THEN <<>>
  ELSE (IF FindStringSubmatch(re, Head(lines)).ok
          THEN <<FindStringSubmatch(re, Head(lines)).cap>>
          ELSE <<>>)
         \o Captures(Tail(lines), re)

\* filterAll: every match, or the read error of the stream and no result
filterAll(r, re) ==
  IF r.end # EOF THEN [ok |-> FALSE, val |-> <<>>]
  ELSE [ok |-> TRUE, val |-> Captures(Lines(r.data), re)]

\* filterFirst: the first match; an error when the stream fails or ends
\* without a match
filterFirst(r, re) ==
  IF r.end # EOF \/ Captures(Lines(r.data), re) = <<>>
    THEN [ok |-> FALSE, val |-> <<>>]
    ELSE [ok |-> TRUE, val |-> Head(Captures(Lines(r.data), re))]

\* parseJSON: the decoded tree, or an error when the stream fails or what
\* it holds is not a JSON document of the expected shape.  The output of the
\* CPU command is modelled decoded: [valid, tree].
parseJSON(r) ==
  IF r.end # EOF \/ ~r.data.valid THEN [ok |-> FALSE, val |-> <<>>]
  ELSE [ok |-> TRUE, val |-> r.data.tree]

\* the value of a decimal digit
DigitOf(c) == CHOOSE d \in 0..9 : ToString(d) = c

RECURSIVE DigitsValue(_, _)
DigitsValue(s, acc) ==
  IF s = <<>> THEN acc ELSE DigitsValue(Tail(s), acc * 10 + DigitOf(Head(s)))

\* strconv.Atoi: an optional sign and at least one decimal digit
Atoi(s) ==
  LET body == IF s # <<>> /\ Head(s) \in {"+", "-"} THEN Tail(s) ELSE s
  IN  IF body = <<>> \/ Span(body, Digits) # Len(body)
        THEN [ok |-> FALSE, val |-> 0]
        ELSE [ok |-> TRUE,
              val |-> IF Head(s) = "-" THEN 0 - DigitsValue(body, 0)
                      ELSE DigitsValue(body, 0)]

RECURSIVE Gcd(_, _)
Gcd(a, b) == IF b = 0 THEN a ELSE Gcd(b, a % b)

\* the number n/d, d > 0, in lowest terms
Frac(n, d) ==
  LET g == Gcd(IF n < 0 THEN 0 - n ELSE n, d)
  IN  [num |-> n \div g, den |-> d \div g]

\* convKBToGB: the size in kilobytes parsed as an integer and divided by
\* 1,048,576
convKBToGB(s) ==
  IF ~Atoi(s).ok THEN [ok |-> FALSE, val |-> Frac(0, 1)]
  ELSE [ok |-> TRUE, val |-> Frac(Atoi(s).val, 1024 * 1024)]

(***************************************************************************)
(* getGPU                                                                  *)
(***************************************************************************)
\* for _, gpuinfo := range results
RECURSIVE GpuLoop(_, _)
GpuLoop(results, gpus) ==
  IF results = <<>> THEN gpus
  ELSE LET i == SplitN2(Head(results))
       IN  IF Len(i) # 2 THEN GpuLoop(Tail(results), gpus)
           ELSE GpuLoop(Tail(results),
                        Append(gpus, [Vendor |-> i[1], Model |-> i[2]]))

getGPU(c) ==
  LET f == filterAll(runCmd(c), "getGPU")
  IN  IF ~f.ok THEN <<>> ELSE GpuLoop(f.val, <<>>)

(***************************************************************************)
(* getCPU and populateCpuInfo                                              *)
(***************************************************************************)
\* cpuInfo{}
CpuZero ==
  [OpMode |-> "", CPUs |-> "", Threads |-> "", Cores |-> "", Sockets |-> "",
   Vendor |-> "", Family |-> "", Model |-> "", Stepping |-> "", Name |-> "",
   Virtualization |-> "", Hypervisor |-> "", VirtualizationType |-> ""]

\* the switch on entry.Field
SetField(c, entry) ==
  CASE entry.Field = "CPU op-mode(s):" -> [c EXCEPT !.OpMode = entry.Data]
    [] entry.Field = "CPU(s):" -> [c EXCEPT !.CPUs = entry.Data]
    [] entry.Field = "Thread(s) per core:" -> [c EXCEPT !.Threads = entry.Data]
    [] entry.Field = "Core(s) per socket:" -> [c EXCEPT !.Cores = entry.Data]
    [] entry.Field = "Socket(s):" -> [c EXCEPT !.Sockets = entry.Data]
    [] entry.Field = "Vendor ID:" -> [c EXCEPT !.Vendor = entry.Data]
    [] entry.Field = "CPU family:" -> [c EXCEPT !.Family = entry.Data]
    [] entry.Field = "Model:" -> [c EXCEPT !.Model = entry.Data]
    [] entry.Field = "Stepping:" -> [c EXCEPT !.Stepping = entry.Data]
    [] entry.Field = "Model name:" -> [c EXCEPT !.Name = entry.Data]
    [] entry.Field = "Virtualization:" ->
         [c EXCEPT !.Virtualization = entry.Data]
    [] entry.Field = "Hypervisor vendor:" ->
         [c EXCEPT !.Hypervisor = entry.Data]
    [] entry.Field = "Virtualization type:" ->
         [c EXCEPT !.VirtualizationType = entry.Data]
    [] OTHER -> c

\* a walk that passes the record to the children by value
RECURSIVE populateByValue(_, _)
populateByValue(entries, c) ==
  IF entries = <<>> THEN c
  ELSE populateByValue(Tail(entries), SetField(c, Head(entries)))

\* populateCpuInfo: c is the record behind the pointer, which the call on
\* the children updates
RECURSIVE populateCpuInfo(_, _)
populateCpuInfo(entries, c) ==
  IF entries = <<>> THEN c
  ELSE LET entry == Head(entries)
           c1 == SetField(c, entry)
       IN  populateCpuInfo(Tail(entries),
                           IF Len(entry.Children) > 0
                             THEN populateCpuInfo(entry.Children, c1)
                             ELSE c1)

getCPU(c) ==
  LET p == parseJSON(runCmd(c))
  IN  IF ~p.ok THEN CpuZero ELSE populateCpuInfo(p.val, CpuZero)

(***************************************************************************)
(* getScreens                                                              *)
(***************************************************************************)
\* a loop that keeps the size with its spaces
RECURSIVE ScreensLoopKeepSpaces(_, _, _)
ScreensLoopKeepSpaces(results, lastSize, screens) ==
  IF results = <<>> THEN screens
  ELSE LET screeninfo == Head(results)
           i == Fields(screeninfo)
       IN  IF Index(screeninfo, Mm) > -1
             THEN ScreensLoopKeepSpaces(Tail(results), screeninfo, screens)
           ELSE IF Len(i) < 2
             THEN ScreensLoopKeepSpaces(Tail(results), lastSize, screens)
           ELSE IF lastSize = <<>>
             THEN ScreensLoopKeepSpaces(Tail(results), lastSize, screens)
           ELSE ScreensLoopKeepSpaces(Tail(results), lastSize,
                  Append(screens, [Size |-> lastSize, Resolution |-> i[1],
                                   Frequency |-> i[Len(i)]]))

\* a loop that uses a size for one mode only
RECURSIVE ScreensLoopForget(_, _, _)
ScreensLoopForget(results, lastSize, screens) ==
  IF results = <<>> THEN screens
  ELSE LET screeninfo == Head(results)
           i == Fields(screeninfo)
       IN  IF Index(screeninfo, Mm) > -1
             THEN ScreensLoopForget(Tail(results), RemoveSpaces(screeninfo),
                                    screens)
           ELSE IF Len(i) < 2
             THEN ScreensLoopForget(Tail(results), lastSize, screens)
           ELSE IF lastSize = <<>>
             THEN ScreensLoopForget(Tail(results), lastSize, screens)
           ELSE ScreensLoopForget(Tail(results), <<>>,
                  Append(screens, [Size |-> lastSize, Resolution |-> i[1],
                                   Frequency |-> i[Len(i)]]))

\* var lastSize string; for _, screeninfo := range results
RECURSIVE ScreensLoop(_, _, _)
ScreensLoop(results, lastSize, screens) ==
  IF results = <<>> THEN screens
  ELSE LET screeninfo == Head(results)
           i == Fields(screeninfo)
       IN  IF Index(screeninfo, Mm) > -1
             THEN ScreensLoop(Tail(results), RemoveSpaces(screeninfo),
               screens)
           ELSE IF Len(i) < 2
             THEN ScreensLoop(Tail(results), lastSize, screens)
           ELSE IF lastSize = <<>>
             THEN ScreensLoop(Tail(results), lastSize, screens)
           ELSE ScreensLoop(Tail(results), lastSize,
                  Append(screens, [Size |-> lastSize, Resolution |-> i[1],
                                   Frequency |-> i[Len(i)]]))

\* the loop of getScreens from its start
ScreensOf(results) == ScreensLoop(results, <<>>, <<>>)

getScreens(c) ==
  LET f == filterAll(runCmd(c), "getScreens")
  IN  IF ~f.ok THEN <<>> ELSE ScreensOf(f.val)

(***************************************************************************)
(* getPartitions                                                           *)
(***************************************************************************)
\* a loop that stops at the first size that is no integer
RECURSIVE PartitionsLoopBreak(_, _)
PartitionsLoopBreak(results, sizes) ==
  IF results = <<>> THEN sizes
  ELSE LET size == Head(results)
           s == Fields(size)
       IN  IF HasPrefix(size, Loop)
             THEN PartitionsLoopBreak(Tail(results), sizes)
           ELSE IF Len(s) # 2
             THEN PartitionsLoopBreak(Tail(results), sizes)
           ELSE IF ~convKBToGB(s[2]).ok
             THEN sizes
           ELSE PartitionsLoopBreak(Tail(results),
                                    Append(sizes, convKBToGB(s[2]).val))

\* for _, size := range results
RECURSIVE PartitionsLoop(_, _)
PartitionsLoop(results, sizes) ==
  IF results = <<>> THEN sizes
  ELSE LET size == Head(results)
           s == Fields(size)
       IN  IF HasPrefix(size, Loop)
             THEN PartitionsLoop(Tail(results), sizes)
           ELSE IF Len(s) # 2
             THEN PartitionsLoop(Tail(results), sizes)
           ELSE IF ~convKBToGB(s[2]).ok
             THEN PartitionsLoop(Tail(results), sizes)
           ELSE PartitionsLoop(Tail(results),
                               Append(sizes, convKBToGB(s[2]).val))

getPartitions(c) ==
  LET f == filterAll(runCmd(c), "getPartitions")
  IN  IF ~f.ok THEN <<>> ELSE PartitionsLoop(f.val, <<>>)

(***************************************************************************)
(* getArch                                                                 *)
(***************************************************************************)
getArch(c) ==
  IF ~CombinedOutput(c).ok THEN <<>> ELSE TrimSpace(CombinedOutput(c).val)

(***************************************************************************)
(* getHwCap                                                                *)
(***************************************************************************)
\* bytesSupported after the legacy section was cut off:
\* legacyIndex := bytes.Index(bytesSupported, legacyBytes) and the slice
TruncateLegacy(bytesSupported) ==
  IF Index(bytesSupported, legacyBytes) >= 0
    THEN Upto(bytesSupported, Index(bytesSupported, legacyBytes))
    ELSE bytesSupported

\* the part of getHwCap after ioutil.ReadAll has succeeded
HwCapOf(bytesSupported) ==
  IF Index(bytesSupported, hwCapBytes) < 0 THEN <<>>
  ELSE LET f == filterFirst(NewReader(TruncateLegacy(bytesSupported)),
                            "getHwCap")
       IN  IF ~f.ok THEN Dash ELSE f.val

\* a getHwCap that uses whatever ioutil.ReadAll could read
getHwCapIgnoreErr(c) ==
  IF c.nil THEN <<>> ELSE HwCapOf(ReadAll(runCmd(c)).val)

\* a getHwCap that does not look for the glibc-hwcaps marker
getHwCapNoMarker(c) ==
  IF c.nil THEN <<>>
  ELSE IF ~ReadAll(runCmd(c)).ok THEN <<>>
  ELSE LET f == filterFirst(
                  NewReader(TruncateLegacy(ReadAll(runCmd(c)).val)),
                  "getHwCap")
       IN  IF ~f.ok THEN Dash ELSE f.val

getHwCap(c) ==
  IF c.nil THEN <<>>
  ELSE IF ~ReadAll(runCmd(c)).ok THEN <<>>
  ELSE HwCapOf(ReadAll(runCmd(c)).val)

(***************************************************************************)
(* The commands the mappers are run on                                     *)
(***************************************************************************)
\* lines of lspci -n
GpuLines ==
  {<<"0", "1", ":", "0", "0", ".", "0", " ", "0", "3", "0", "0", ":", " ",
    "1", "0", "d", "e", ":", "1", "2", "3", "4", " ", "(", "r", "e", "v", " ",
    "a", "1", ")">>,
   <<"0", "0", ":", "0", "2", ".", "0", " ", "0", "3", "0", "0", ":", " ",
     "8", "0", "8", "6", ":", "0", "1", "2", "6">>,
   <<"0", "0", ":", "1", "f", ".", "2", " ", "0", "1", "0", "6", ":", " ",
     "8", "0", "8", "6", ":", "1", "c", "0", "3", " ", "(", "r", "e", "v",
     " ", "0", "4", ")">>,
   <<"0", "2", ":", "0", "0", ".", "0", " ", "0", "3", "0", "0", ":", " ",
     "n", "o", "C", "o", "l", "o", "n">>}

\* lines of xrandr
ScreenLines ==
  {<<"H", " ", "c", "o", "n", "n", "e", "c", "t", "e", "d", " ", "1", "9",
    "m", "m", " ", "x", " ", "1", "0", "m", "m">>,
   <<"D", " ", "c", "o", "n", "n", "e", "c", "t", "e", "d", " ", "3", "0",
     "m", "m", " ", "x", " ", "2", "0", "m", "m">>,
   <<"H", " ", "c", "o", "n", "n", "e", "c", "t", "e", "d", " ", "p", " ",
     "1", "9", "m", "m", " ", "x", " ", "1", "0", "m", "m">>,
   <<"D", " ", "c", "o", "n", "n", "e", "c", "t", "e", "d", " ", "8", "x",
     "6", "+", "0", "+", "0", " ", "(", "n", ")", " ", "3", "0", "m", "m",
     " ", "x", " ", "2", "0", "m", "m">>,
   <<"V", " ", "d", "i", "s", "c", "o", "n", "n", "e", "c", "t", "e", "d",
     " ", "(", "n", ")">>,
   <<" ", " ", " ", "1", "9", "x", "1", "0", " ", "6", "0", ".", "0", "*">>,
   <<" ", " ", " ", "1", "2", "x", "8", " ", " ", " ", " ", " ", "5", "0",
     ".", "0", " ", "6", "0", ".", "0", "*", "+", " ", " ", "5", "9", ".",
     "9">>,
   <<" ", " ", "1", "9", "x", "1", "0", "*">>,
   <<" ", " ", " ", "1", "9", "m", "m", " ", "6", "0", ".", "0", "*">>,
   <<" ", " ", " ", "8", "x", "6", " ", "6", "0", ".", "0">>}

\* lines of df
PartitionLines ==
  {<<"/", "d", "e", "v", "/", "s", "d", "a", "1", " ", "1", "0", "4", "8",
    "5", "7", "6", " ", "x">>,
   <<"/", "d", "e", "v", "/", "s", "d", "b", " ", " ", "2", "0", "9", "7",
     "1", "5", "2">>,
   <<"/", "d", "e", "v", "/", "s", "d", "c", " ", "5", "1", "2", " ", "9",
     " ", "/">>,
   <<"/", "d", "e", "v", "/", "l", "o", "o", "p", "0", " ", "5", "1", "2">>,
   <<"/", "d", "e", "v", "/", "s", "d", "d", " ", "a", "b", "c">>,
   <<"/", "d", "e", "v", "/", "s", "d", "e", " ">>,
   <<"t", "m", "p", "f", "s", " ", "1", "0", "0">>}

\* lines of ld.so --help
HwCapLines ==
  {<<"S", "u", "b", "d", "i", "r", "e", "c", "t", "o", "r", "i", "e", "s",
    " ", "o", "f", " ", "g", "l", "i", "b", "c", "-", "h", "w", "c", "a", "p",
    "s", " ", "d", "i", "r", "e", "c", "t", "o", "r", "i", "e", "s", ":">>,
   <<"L", "e", "g", "a", "c", "y", " ", "H", "W", "C", "A", "P", " ", "s",
     "u", "b", "d", "i", "r", "e", "c", "t", "o", "r", "i", "e", "s", ":">>,
   <<" ", " ", "v", "4">>,
   <<" ", " ", "v", "3", " ", "(", "s", "u", "p", "p", "o", "r", "t", "e",
     "d", ",", " ", "s", "e", "a", "r", "c", "h", "e", "d", ")">>,
   <<" ", " ", "v", "2", " ", "(", "s", "u", "p", "p", "o", "r", "t", "e",
     "d", ",", " ", "s", "e", "a", "r", "c", "h", "e", "d", ")">>}

\* outputs of dpkg --print-architecture
ArchOutputs == {<<"a", "m", "d", "6", "4", "\n">>, <<" ", "a", "r", "m", "6",
  "4", " ", "\n">>, <<>>}

\* the bytes of a sequence of lines
RECURSIVE Text(_)
Text(lines) ==
  IF lines = <<>> THEN <<>> ELSE Head(lines) \o <<"\n">> \o Text(Tail(lines))

\* the outputs of at most MaxLines lines
Texts(L) == {Text(ls) : ls \in BSeq(L, MaxLines)}

\* the labels populateCpuInfo knows, each with the field it sets
KnownLabels ==
  <<[label |-> "CPU op-mode(s):", field |-> "OpMode"],
    [label |-> "CPU(s):", field |-> "CPUs"],
    [label |-> "Thread(s) per core:", field |-> "Threads"],
    [label |-> "Core(s) per socket:", field |-> "Cores"],
    [label |-> "Socket(s):", field |-> "Sockets"],
    [label |-> "Vendor ID:", field |-> "Vendor"],
    [label |-> "CPU family:", field |-> "Family"],
    [label |-> "Model:", field |-> "Model"],
    [label |-> "Stepping:", field |-> "Stepping"],
    [label |-> "Model name:", field |-> "Name"],
    [label |-> "Virtualization:", field |-> "Virtualization"],
    [label |-> "Hypervisor vendor:", field |-> "Hypervisor"],
    [label |-> "Virtualization type:", field |-> "VirtualizationType"]>>

\* the children of node p (0: the top level) in the forest that gives node i
\* the parent par[i] and the label lab[i]; the Data of a node is its number
RECURSIVE Forest(_, _, _)
Forest(par, lab, p) ==
  LET kids == {i \in DOMAIN par : par[i] = p}
      RECURSIVE InOrder(_)
      InOrder(S) ==
        IF S = {} THEN <<>>
        ELSE <<[Field |-> lab[Min(S)], Data |-> ToString(Min(S)),
                Children |-> Forest(par, lab, Min(S))]>>
               \o InOrder(S \ {Min(S)})
  IN  InOrder(kids)

\* the lscpu trees of at most MaxNodes entries that use a known label, the
\* label after it and a label populateCpuInfo does not know
LscpuTrees ==
  UNION {
    {Forest(par, lab, 0) :
       par \in {f \in [1..n -> 0..n] : \A i \in 1..n : f[i] < i},
       lab \in [1..n -> {KnownLabels[k].label,
                         KnownLabels[(k % Len(KnownLabels)) + 1].label,
                         "Flags:"}]} :
    n \in 0..MaxNodes, k \in 1..Len(KnownLabels)}

\* what lscpu -J may print: a tree, or something that does not decode
LscpuOutputs ==
  {[valid |-> TRUE, tree |-> t] : t \in LscpuTrees}
    \cup {[valid |-> FALSE, tree |-> <<>>]}

\* the commands that print one of the outputs O: one that succeeds, one that
\* exits with an error after it, and one that cannot be started
Cmds(args, O, none) ==
  {[nil |-> FALSE, args |-> args, out |-> o, fate |-> f] :
     o \in O, f \in {"ok", "exitErr"}}
    \cup {[nil |-> FALSE, args |-> args, out |-> none, fate |-> "startErr"]}

\* hwCapCmd is nil
NilCmd == [nil |-> TRUE, args |-> <<>>, out |-> <<>>, fate |-> "ok"]

InitRun ==
  /\ script \in [Invocations -> Scripts]
  /\ inv = [i \in Invocations |-> "new"]
  /\ gor = [i \in Invocations |-> 0]
  /\ gpc = [i \in Invocations |-> "none"]
  /\ runErr = [i \in Invocations |-> "nil"]
  /\ proc = [i \in Invocations |-> "none"]
  /\ written = [i \in Invocations |-> 0]
  /\ ospipe = [i \in Invocations |-> <<>>]
  /\ copier = [i \in Invocations |-> "none"]
  /\ pend = [i \in Invocations |-> <<>>]
  /\ perr = [i \in Invocations |-> Open]
  /\ closes = [i \in Invocations |-> <<>>]
  /\ got = [i \in Invocations |-> <<>>]
  /\ outcome = [i \in Invocations |-> <<>>]
  /\ cons = [i \in Invocations |-> "reading"]
  /\ mapper = "none"
  /\ cmd = NilCmd
  /\ pc = "ready"
  /\ result = <<>>
  /\ spawned = 0

\* a Metrics value with the command of one mapper set, no mapper called yet
Init ==
  /\ script = [i \in Invocations |-> [n |-> 0, fate |-> "ok"]]
  /\ inv = [i \in Invocations |-> "new"]
  /\ gor = [i \in Invocations |-> 0]
  /\ gpc = [i \in Invocations |-> "none"]
  /\ runErr = [i \in Invocations |-> "nil"]
  /\ proc = [i \in Invocations |-> "none"]
  /\ written = [i \in Invocations |-> 0]
  /\ ospipe = [i \in Invocations |-> <<>>]
  /\ copier = [i \in Invocations |-> "none"]
  /\ pend = [i \in Invocations |-> <<>>]
  /\ perr = [i \in Invocations |-> Open]
  /\ closes = [i \in Invocations |-> <<>>]
  /\ got = [i \in Invocations |-> <<>>]
  /\ outcome = [i \in Invocations |-> <<>>]
  /\ cons = [i \in Invocations |-> "reading"]
  /\ pc = "ready"
  /\ result = <<>>
  /\ spawned = 0
  /\ \/ /\ mapper = "gpu"
        /\ cmd \in Cmds(<<"lspci", "-n">>, Texts(GpuLines), <<>>)
     \/ /\ mapper = "cpu"
        /\ cmd \in Cmds(<<"lscpu", "-J">>, LscpuOutputs,
                        [valid |-> FALSE, tree |-> <<>>])
     \/ /\ mapper = "screens"
        /\ cmd \in Cmds(<<"xrandr">>, Texts(ScreenLines), <<>>)
     \/ /\ mapper = "partitions"
        /\ cmd \in Cmds(<<"df">>, Texts(PartitionLines), <<>>)
     \/ /\ mapper = "arch"
        /\ cmd \in Cmds(<<"dpkg", "--print-architecture">>, ArchOutputs, <<>>)
     \/ /\ mapper = "hwcap"
        /\ cmd \in Cmds(<<"ld.so", "--help">>, Texts(HwCapLines), <<>>)
                     \cup {NilCmd}

\* a call of a mapper that spawns its command
Call(m, r) ==
  /\ mapper = m
  /\ pc = "ready"
  /\ pc' = "returned"
  /\ result' = r
  /\ spawned' = IF cmd.nil THEN spawned ELSE spawned + 1
  /\ UNCHANGED <<mapper, cmd, rvars>>

GetGPU == Call("gpu", getGPU(cmd))

GetCPU == Call("cpu", getCPU(cmd))

GetScreens == Call("screens", getScreens(cmd))

GetPartitions == Call("partitions", getPartitions(cmd))

GetArch == Call("arch", getArch(cmd))

GetHwCap == Call("hwcap", getHwCap(cmd))

Next ==
  \/ GetGPU
  \/ GetCPU
  \/ GetScreens
  \/ GetPartitions
  \/ GetArch
  \/ GetHwCap

Spec == Init /\ [][Next]_vars


\* the steps of the producer side of one invocation
Producer(i) ==
  \/ CmdStart(i)
  \/ ProcWrite(i)
  \/ ProcExit(i)
  \/ CopyRead(i)
  \/ CopyWritten(i)
  \/ CopyEOF(i)
  \/ CmdWait(i)
  \/ GoClose(i)

NextRun ==
  \E i \in Invocations :
    \/ RunCmd(i)
    \/ Producer(i)
    \/ Read(i)
    \/ Abandon(i)

SpecRun == InitRun /\ [][NextRun]_vars

\* the Go scheduler runs every runnable goroutine, the kernel runs the
\* process, and a consumer that has not given up keeps calling Read
FairRun ==
  /\ SpecRun
  /\ \A i \in Invocations :
       /\ WF_vars(RunCmd(i))
       /\ WF_vars(Producer(i))
       /\ WF_vars(Read(i))

(***************************************************************************)
(* Properties of runCmd (SpecRun, FairRun)                                 *)
(***************************************************************************)
\* the bytes 1..n in the order the process writes them
Bytes(n) == [j \in 1..n |-> j]

\* what the stream of invocation i must end with
Terminal(i) ==
  IF script[i].fate = "ok" THEN EOF
  ELSE [kind |-> "error", cause |-> OsError(script[i].fate), args |-> Args(i)]

\* C1: runCmd returns before the command is even started and with the pipe
\* open; an error reaches the consumer only through Read, only for a command
\* that failed, only after every byte the command wrote, and it carries the
\* OS error and all of cmd.Args
C1_DeferredError ==
  \A i \in Invocations :
    /\ gpc[i] = "start" =>
         inv[i] = "returned" /\ proc[i] = "none" /\ perr[i] = Open
    /\ perr[i] # Open /\ perr[i] # EOF =>
         script[i].fate # "ok" /\ perr[i] = Terminal(i)
    /\ \A k \in 1..Len(outcome[i]) :
         outcome[i][k] # EOF =>
           /\ k = 1
           /\ outcome[i][k] = Terminal(i)
           /\ written[i] = script[i].n
           /\ got[i] = Bytes(written[i])
    /\ cons[i] = "finished" /\ script[i].fate # "ok" => outcome[i] # <<EOF>>

\* C1 witness: a command wrote output, failed, and the consumer has read the
\* output and then the error
C1_Witness ==
  \E i \in Invocations :
    /\ script[i].fate = "exitErr"
    /\ Len(got[i]) >= 1
    /\ outcome[i] = <<Terminal(i)>>

\* C2 as claimed: once the consumer has abandoned the stream and the process
\* has exited, the goroutine of runCmd finishes
C2_AbandonedProducerTerminates ==
  \A i \in Invocations :
    (cons[i] = "abandoned" /\ proc[i] = "exited") ~> (gpc[i] = "done")

\* what holds of every state of the invocations
C10_Safe ==
  \A i \in Invocations :
    /\ gor[i] = (IF inv[i] = "returned" THEN 1 ELSE 0)
    /\ Len(closes[i]) <= 1
    /\ (gpc[i] = "done") <=> (Len(closes[i]) = 1)
    /\ cons[i] = "finished" =>
         /\ outcome[i] = <<Terminal(i)>>
         /\ script[i].fate = "ok" => got[i] = Bytes(script[i].n)
    /\ cons[i] # "finished" => outcome[i] = <<>>
    /\ inv[i] = "returned" /\ cons[i] = "reading" =>
         ENABLED (Producer(i) \/ Read(i))

\* C10: every invocation has exactly one goroutine, which closes the pipe
\* exactly once; a consumer that keeps reading is never stuck and ends with
\* exactly one terminal result, EOF after the complete output or the wrapped
\* error, which depends on its own command alone however the invocations
\* interleave
C10_OneTaskOneOutcome ==
  /\ []C10_Safe
  /\ \A i \in Invocations :
       (inv[i] = "returned") ~> (cons[i] \in {"finished", "abandoned"})

\* C10 witness: two interleaved invocations have ended, one with EOF after
\* its whole output, the other with its error
C10_Witness ==
  /\ cons = [i \in Invocations |-> "finished"]
  /\ script[1] = [n |-> MaxOut, fate |-> "ok"]
  /\ got[1] = Bytes(MaxOut)
  /\ outcome[1] = <<EOF>>
  /\ script[2].fate = "exitErr"
  /\ outcome[2] = <<Terminal(2)>>

(***************************************************************************)
(* Properties of the mappers (Spec)                                        *)
(***************************************************************************)
\* the mapper has returned from a command that ran and exited with status 0
Returned(m) == mapper = m /\ pc = "returned"

RanOk(m) == Returned(m) /\ ~cmd.nil /\ cmd.fate = "ok"

\* the zero value of the result of a mapper
Zero(m) == IF m = "cpu" THEN CpuZero ELSE <<>>

\* a filtered df result that getPartitions turns into a size
PartitionOk(r) ==
  /\ ~HasPrefix(r, Loop)
  /\ Len(Fields(r)) = 2
  /\ Atoi(Fields(r)[2]).ok

GpuOk(r) == Len(SplitN2(r)) = 2

IsSize(r) == Contains(r, Mm)

\* the places of the filtered xrandr results that getScreens turns into a
\* record: a mode with two fields or more that a size precedes
ModePlaces(rs) ==
  {j \in 1..Len(rs) :
     /\ ~IsSize(rs[j])
     /\ Len(Fields(rs[j])) >= 2
     /\ \E i \in 1..(j - 1) : IsSize(rs[i])}

\* C3: a mapper whose command fails to start or exits with an error, or
\* whose output does not decode, returns its zero value whatever the command
\* had printed; a matched line of the wrong shape only drops that line
C3_ZeroOnFailure ==
  pc = "returned" =>
    /\ cmd.fate # "ok" => result = Zero(mapper)
    /\ mapper = "cpu" /\ ~cmd.out.valid => result = CpuZero
    /\ RanOk("gpu") =>
         Len(result) = Len(SelectSeq(Captures(Lines(cmd.out), "getGPU"),
           GpuOk))
    /\ RanOk("partitions") =>
         Len(result) =
           Len(SelectSeq(Captures(Lines(cmd.out), "getPartitions"),
                         PartitionOk))
    /\ RanOk("screens") =>
         Len(result) =
           Cardinality(ModePlaces(Captures(Lines(cmd.out), "getScreens")))

\* C3 witness: a command printed a line that yields a level and then exited
\* with an error, and getHwCap returned the empty string
C3_Witness ==
  /\ Returned("hwcap")
  /\ cmd.fate = "exitErr"
  /\ HwCapOf(cmd.out) \notin {<<>>, Dash}
  /\ result = <<>>

\* the levels of the lines the pattern of getHwCap finds in the buffer it
\* searches
Levels(b) == Captures(Lines(TruncateLegacy(b)), "getHwCap")

\* C4: getHwCap without a command returns "" and spawns nothing; with a
\* command that succeeds it returns "" when the output lacks the glibc-hwcaps
\* marker, "-" when it has the marker and the searched buffer no supported
\* line, and else the level of the first supported line
C4_HwCapOutcomes ==
  Returned("hwcap") =>
    /\ cmd.nil => result = <<>> /\ spawned = 0
    /\ RanOk("hwcap") =>
         /\ spawned = 1
         /\ ~Contains(cmd.out, hwCapBytes) => result = <<>>
         /\ Contains(cmd.out, hwCapBytes) /\ Levels(cmd.out) = <<>> =>
              result = Dash
         /\ Contains(cmd.out, hwCapBytes) /\ Levels(cmd.out) # <<>> =>
              result = Head(Levels(cmd.out))

\* C4 witness: two different supported lines follow the marker and the level
\* of the first one is returned
C4_Witness ==
  /\ RanOk("hwcap")
  /\ Contains(cmd.out, hwCapBytes)
  /\ Len(Levels(cmd.out)) = 2
  /\ Levels(cmd.out)[1] # Levels(cmd.out)[2]
  /\ result = Levels(cmd.out)[1]

\* the entries of a tree in the order of a pre-order depth-first walk
RECURSIVE PreOrder(_)
PreOrder(entries) ==
  IF entries = <<>> THEN <<>>
  ELSE <<Head(entries)>> \o PreOrder(Head(entries).Children)
         \o PreOrder(Tail(entries))

\* the Data of the last entry of walk that carries the label, "" without one
LastData(walk, label) ==
  LET at == {j \in 1..Len(walk) : walk[j].Field = label}
  IN  IF at = {} THEN "" ELSE walk[Max(at)].Data

\* C5: every field of the record of getCPU holds the Data of the last entry
\* with its label in the pre-order walk of the whole tree, and "" when no
\* entry has the label
C5_LastWriteWins ==
  RanOk("cpu") /\ cmd.out.valid =>
    /\ DOMAIN result = {KnownLabels[k].field : k \in 1..Len(KnownLabels)}
    /\ \A k \in 1..Len(KnownLabels) :
         result[KnownLabels[k].field] =
           LastData(PreOrder(cmd.out.tree), KnownLabels[k].label)

\* C5 witness: a child repeats the label of its parent and the value of the
\* child is the one returned
C5_Witness ==
  /\ RanOk("cpu")
  /\ cmd.out.valid
  /\ Len(cmd.out.tree) = 2
  /\ cmd.out.tree[1].Field = "Model:"
  /\ Len(cmd.out.tree[1].Children) = 1
  /\ cmd.out.tree[1].Children[1].Field = "Model:"
  /\ cmd.out.tree[2].Field = "Flags:"
  /\ result.Model = cmd.out.tree[1].Children[1].Data

\* the gigabytes of a filtered df result
GigaBytes(r) == Frac(Atoi(Fields(r)[2]).val, 1048576)

\* C6: getPartitions returns, in stream order, the gigabytes of exactly the
\* filtered results that do not start with "loop", have two fields and an
\* integer size; 1048576 KB are 1 GB
C6_PartitionSizes ==
  RanOk("partitions") =>
    LET kept == SelectSeq(Captures(Lines(cmd.out), "getPartitions"),
                          PartitionOk)
    IN  /\ result = [j \in 1..Len(kept) |-> GigaBytes(kept[j])]
        /\ \A j \in 1..Len(kept) :
             Fields(kept[j])[2] = <<"1", "0", "4", "8", "5", "7", "6">> =>
               result[j] = [num |-> 1, den |-> 1]

\* C6 witness: a result whose size is no integer lies between two results
\* that yield sizes, the first of them 1 GB
C6_Witness ==
  /\ RanOk("partitions")
  /\ Len(Captures(Lines(cmd.out), "getPartitions")) = 3
  /\ Len(Fields(Captures(Lines(cmd.out), "getPartitions")[2])) = 2
  /\ ~Atoi(Fields(Captures(Lines(cmd.out), "getPartitions")[2])[2]).ok
  /\ Len(result) = 2
  /\ result[1] = [num |-> 1, den |-> 1]

\* a token <digits>mm
IsMmToken(t) ==
  /\ Len(t) > Len(Mm)
  /\ HasSuffix(t, Mm)
  /\ Span(t, Digits) = Len(t) - Len(Mm)

\* the fields of a line joined by single blanks
RECURSIVE Join(_)
Join(fs) ==
  IF fs = <<>> THEN <<>>
  ELSE IF Len(fs) = 1 THEN Head(fs)
  ELSE Head(fs) \o <<" ">> \o Join(Tail(fs))

\* a line <output> connected ... <W>mm x <H>mm with n fields
SizeLine(l, n) ==
  LET f == Fields(l)
  IN  /\ Len(f) = n
      /\ l = Join(f)
      /\ f[2] = <<"c", "o", "n", "n", "e", "c", "t", "e", "d">>
      /\ IsMmToken(f[n - 2])
      /\ f[n - 1] = <<"x">>
      /\ IsMmToken(f[n])

\* <W>mmx<H>mm of a size line
SizeOf(l) ==
  LET f == Fields(l)
  IN  f[Len(f) - 2] \o <<"x">> \o f[Len(f)]

\* a mode line: blanks, tokens without "mm", a star at the end
StarLine(l) ==
  /\ HasPrefix(l, <<" ">>)
  /\ HasSuffix(l, <<"*">>)
  /\ ~Contains(l, Mm)

\* C7 as claimed: a size line <output> connected <W>mm x <H>mm followed by a
\* mode line of two tokens or more that ends with a star yields the one
\* record with that size, the first token and the last token of the mode line
C7_DirectSizeLine ==
  RanOk("screens") =>
    LET ls == Lines(cmd.out)
    IN  /\ Len(ls) = 2
        /\ SizeLine(ls[1], 5)
        /\ StarLine(ls[2])
        /\ Len(Fields(ls[2])) >= 2
        => result =
             <<[Size |-> SizeOf(ls[1]),
                Resolution |-> Fields(ls[2])[1],
                Frequency |-> Fields(ls[2])[Len(Fields(ls[2]))]]>>

\* C7 amended: when text between blanks separates the size from the word
\* connected, and the mode line has two tokens or more before its final
\* star, the one record returned has that size, the first token of the mode
\* line and the last token before the star
C7_SeparatedSizeLine ==
  RanOk("screens") =>
    LET ls == Lines(cmd.out)
    IN  /\ Len(ls) = 2
        /\ \E n \in 6..Len(ls[1]) : SizeLine(ls[1], n)
        /\ StarLine(ls[2])
        /\ Len(Fields(Upto(ls[2], Len(ls[2]) - 1))) >= 2
        => LET mode == Fields(Upto(ls[2], Len(ls[2]) - 1))
           IN  result =
                 <<[Size |-> SizeOf(ls[1]),
                    Resolution |-> mode[1],
                    Frequency |-> mode[Len(mode)]]>>

\* C7 witness: such a listing was mapped to one record
C7_Witness ==
  /\ RanOk("screens")
  /\ Len(Lines(cmd.out)) = 2
  /\ \E n \in 6..Len(Lines(cmd.out)[1]) : SizeLine(Lines(cmd.out)[1], n)
  /\ StarLine(Lines(cmd.out)[2])
  /\ Len(result) = 1
  /\ result[1].Frequency = <<"6", "0", ".", "0">>

\* the place of the last size result before place j
SizeBefore(rs, j) == Max({i \in 1..(j - 1) : IsSize(rs[i])})

\* the j-th smallest element of a set of numbers
RECURSIVE Nth(_, _)
Nth(S, j) == IF j = 1 THEN Min(S) ELSE Nth(S \ {Min(S)}, j - 1)

\* C8: the records of getScreens are, in order, those of the mode results
\* that have two fields or more and a size result before them; each carries
\* the nearest size result before it with the spaces removed, which is never
\* empty, the first field and the last field
C8_SizeCarriedForward ==
  RanOk("screens") =>
    LET rs == Captures(Lines(cmd.out), "getScreens")
        places == ModePlaces(rs)
    IN  /\ Len(result) = Cardinality(places)
        /\ \A k \in 1..Len(result) :
             LET j == Nth(places, k)
             IN  /\ result[k].Size # <<>>
                 /\ result[k].Size = RemoveSpaces(rs[SizeBefore(rs, j)])
                 /\ result[k].Resolution = Fields(rs[j])[1]
                 /\ result[k].Frequency = Fields(rs[j])[Len(Fields(rs[j]))]

\* C8 witness: two modes after one size carry the same size
C8_Witness ==
  /\ RanOk("screens")
  /\ Len(Captures(Lines(cmd.out), "getScreens")) = 3
  /\ Len(result) = 2
  /\ result[1].Size = result[2].Size
  /\ result[1].Resolution # result[2].Resolution

\* the buffer cut at the first legacy marker that follows the glibc-hwcaps
\* marker, whole without one
CutAfterMarker(b) ==
  LET h == Index(b, hwCapBytes)
      l == Index(From(b, h), legacyBytes)
  IN  IF l >= 0 THEN Upto(b, h + l) ELSE b

\* C9 as claimed: the level returned is searched in the output up to the
\* first legacy marker after the glibc-hwcaps marker; a legacy marker before
\* the glibc-hwcaps marker cuts nothing
C9_LegacyAfterMarkerOnly ==
  RanOk("hwcap") /\ Contains(cmd.out, hwCapBytes) =>
    LET found == Captures(Lines(CutAfterMarker(cmd.out)), "getHwCap")
    IN  result = IF found = <<>> THEN Dash ELSE Head(found)

=============================================================================
